---------------------------- MODULE Spec2Model ----------------------------
(***************************************************************************)
(* The goruntime telegraf input (jursonmo/gomonitor):                      *)
(*   goruntime.go  GoRuntime.Gather / gatherURL / parse  (the collector)   *)
(*   metric.go     collectGCStats / collectMemStats / Values / Tags        *)
(*                                                     (the transform)     *)
(*                                                                         *)
(* Machine integers.  TLC's integers are 32-bit, so the Go widths are      *)
(* scaled: uint32 is modelled with Bits32 bits and uint64 / int64 / int    *)
(* with Bits64 bits, keeping what the code relies on: 256 divides          *)
(* 2^Bits32, Bits32 < Bits64 - 1, and int64 is two's complement over       *)
(* 2^Bits64.  "2^32 - 1" of the source is 2^Bits32 - 1 here, "2^63" is     *)
(* 2^(Bits64-1).                                                           *)
(***************************************************************************)
EXTENDS Integers, Sequences, FiniteSets, Bags, TLC

Bits32 == 12
Bits64 == 16

\* runtime.MemStats.PauseNs is [256]uint64; metric.go:63 indexes it with
\* (m.NumGC+255)%256.  The ring is a tuple here: Go's PauseNs[i] is the
\* tuple's element i + 1.
PauseSlots == 256
PauseBack == 255

Pow32 == 2 ^ Bits32
Pow64 == 2 ^ Bits64
MaxInt64 == 2 ^ (Bits64 - 1) - 1
MinInt64 == 0 - 2 ^ (Bits64 - 1)

DefaulMeasurement == "goruntime_m"

VARIABLES
    \* ---- configuration (GoRuntime fields set from toml, read-only) ----
    Urls,          \* c.Urls
    Measurement,   \* c.Measurement
    \* ---- collector ----
    client,        \* c.client: 0 is nil, n > 0 is the n-th client constructed
    built,         \* how many times an http.Client has been constructed
    calls,         \* how many Gather calls have begun
    overlap,       \* whether the external scheduler lets Gather calls overlap
    gpc,           \* per Gather frame: position of the call
    gret,          \* per Gather frame: the value Gather returned
    loopi,         \* per Gather frame: the range loop's position in c.Urls
    wg,            \* per Gather frame: the sync.WaitGroup counter
    task,          \* per Gather frame and endpoint index: the goroutine
    acc,           \* per Gather frame: what the accumulator has been handed
    \* ---- transform (one run of parse's field computation) ----
    rd,            \* the decoded RuntimeData
    fields,        \* the Fields struct
    values,        \* fields.Values()
    tags,          \* fields.Tags()
    tpc            \* "decoded" -> "collected" -> "emitted"

cvars == <<client, built, calls, overlap, gpc, gret, loopi, wg, task, acc>>
tvars == <<rd, fields, values, tags, tpc>>
cfgvars == <<Urls, Measurement>>
vars == <<Urls, Measurement, client, built, calls, overlap, gpc, gret, loopi,
          wg, task, acc, rd, fields, values, tags, tpc>>

-----------------------------------------------------------------------------
(* Conversions.                                                            *)

\* A mistaken narrowing: int64(int32(x)).
ToInt64Narrow(x) ==
    LET m == x % Pow32
    IN  IF m >= Pow32 \div 2 THEN m - Pow32 ELSE m

\* Go's int64(x) for x an int, a uint32 or a uint64: the value modulo 2^64,
\* read as two's complement.
ToInt64(x) ==
    LET m == x % Pow64
    IN  IF m > MaxInt64 THEN m - Pow64 ELSE m

\* Go's ring[i].
RingAt(ring, i) == ring[i + 1]

\* The previous-to-last slot: NumGC % 256.
PauseIndexNoOffset(numGC) == numGC % PauseSlots

\* (m.NumGC+255)%256 in uint32 arithmetic: the sum wraps modulo 2^32 first.
PauseIndex(numGC) == ((numGC + PauseBack) % Pow32) % PauseSlots

-----------------------------------------------------------------------------
(* The transform: metric.go and the first half of GoRuntime.parse.         *)

ZeroFields ==
    [Serial |-> "", NumCpu |-> 0, NumThread |-> 0, NumGoroutine |-> 0,
     NumCgoCall |-> 0, CpuPercent |-> 0, MemPercent |-> 0,
     Alloc |-> 0, TotalAlloc |-> 0, Sys |-> 0, Lookups |-> 0, Mallocs |-> 0,
     Frees |-> 0,
     HeapAlloc |-> 0, HeapSys |-> 0, HeapIdle |-> 0, HeapInuse |-> 0,
     HeapReleased |-> 0, HeapObjects |-> 0,
     StackInuse |-> 0, StackSys |-> 0, MSpanInuse |-> 0, MSpanSys |-> 0,
     MCacheInuse |-> 0, MCacheSys |-> 0, OtherSys |-> 0,
     GCSys |-> 0, NextGC |-> 0, LastGC |-> 0, PauseTotalNs |-> 0,
     PauseNs |-> 0, NumGC |-> 0, GCCPUFraction |-> 0]

collectGCStats(f, m) ==
    [f EXCEPT !.GCSys = ToInt64(m.GCSys),
              !.NextGC = ToInt64(m.NextGC),
              !.LastGC = ToInt64(m.LastGC),
              !.PauseTotalNs = ToInt64(m.PauseTotalNs),
              !.PauseNs = ToInt64(RingAt(m.PauseNs, PauseIndex(m.NumGC))),
              !.NumGC = ToInt64(m.NumGC),
              !.GCCPUFraction = m.GCCPUFraction]

collectMemStats(f, m) ==
    [f EXCEPT !.Alloc = ToInt64(m.Alloc),
              !.TotalAlloc = ToInt64(m.TotalAlloc),
              !.Sys = ToInt64(m.Sys),
              !.Lookups = ToInt64(m.Lookups),
              !.Mallocs = ToInt64(m.Mallocs),
              !.Frees = ToInt64(m.Frees),
              !.HeapAlloc = ToInt64(m.HeapAlloc),
              !.HeapSys = ToInt64(m.HeapSys),
              !.HeapIdle = ToInt64(m.HeapIdle),
              !.HeapInuse = ToInt64(m.HeapInuse),
              !.HeapReleased = ToInt64(m.HeapReleased),
              !.HeapObjects = ToInt64(m.HeapObjects),
              !.StackInuse = ToInt64(m.StackInuse),
              !.StackSys = ToInt64(m.StackSys),
              !.MSpanInuse = ToInt64(m.MSpanInuse),
              !.MSpanSys = ToInt64(m.MSpanSys),
              !.MCacheInuse = ToInt64(m.MCacheInuse),
              !.MCacheSys = ToInt64(m.MCacheSys),
              !.OtherSys = ToInt64(m.OtherSys)]

\* GoRuntime.parse, lines 163-172: the Fields built from one RuntimeData.
ParseFields(r) ==
    LET f0 == [ZeroFields EXCEPT !.Serial = r.Serial,
                                 !.NumCpu = ToInt64(r.CPUNum),
                                 !.NumGoroutine = ToInt64(r.GoRoutineNum),
                                 !.NumThread = ToInt64(r.ThreadNum),
                                 !.CpuPercent = ToInt64(r.CpuPercent),
                                 !.MemPercent = ToInt64(r.MemPercent)]
    IN  collectGCStats(collectMemStats(f0, r.Memstats), r.Memstats)

Tags(f) == [serial |-> f.Serial]

ValuesAll(f) ==
    ("cpu.count" :> f.NumCpu) @@
    ("cpu.goroutines" :> f.NumGoroutine) @@
    ("cpu.cgo_calls" :> f.NumCgoCall) @@
    ("cpu.thread" :> f.NumThread) @@
    ("cpu.percent" :> f.CpuPercent) @@
    ("mem.percent" :> f.MemPercent) @@
    ("mem.alloc" :> f.Alloc) @@
    ("mem.total" :> f.TotalAlloc) @@
    ("mem.sys" :> f.Sys) @@
    ("mem.lookups" :> f.Lookups) @@
    ("mem.malloc" :> f.Mallocs) @@
    ("mem.frees" :> f.Frees) @@
    ("mem.heap.alloc" :> f.HeapAlloc) @@
    ("mem.heap.sys" :> f.HeapSys) @@
    ("mem.heap.idle" :> f.HeapIdle) @@
    ("mem.heap.inuse" :> f.HeapInuse) @@
    ("mem.heap.released" :> f.HeapReleased) @@
    ("mem.heap.objects" :> f.HeapObjects) @@
    ("mem.stack.inuse" :> f.StackInuse) @@
    ("mem.stack.sys" :> f.StackSys) @@
    ("mem.stack.mspan_inuse" :> f.MSpanInuse) @@
    ("mem.stack.mspan_sys" :> f.MSpanSys) @@
    ("mem.stack.mcache_inuse" :> f.MCacheInuse) @@
    ("mem.stack.mcache_sys" :> f.MCacheSys) @@
    ("mem.othersys" :> f.OtherSys) @@
    ("mem.gc.sys" :> f.GCSys) @@
    ("mem.gc.next" :> f.NextGC) @@
    ("mem.gc.last" :> f.LastGC) @@
    ("mem.gc.pause_total" :> f.PauseTotalNs) @@
    ("mem.gc.pause" :> f.PauseNs) @@
    ("mem.gc.count" :> f.NumGC) @@
    ("mem.gc.cpu_fraction" :> f.GCCPUFraction)

\* A map that leaves out the zero-valued fields (an "omitempty" encoding).
ValuesOmitEmpty(f) ==
    LET all == ValuesAll(f)
    IN  [k \in {x \in DOMAIN all : all[x] # 0} |-> all[k]]

\* Fields.Values(): the map literal of metric.go:106-144.
Values(f) == ValuesAll(f)

-----------------------------------------------------------------------------
(* Decoded inputs.                                                         *)

\* Values a uint64 counter of runtime.MemStats can hold.
U64Values == {0, 1, Pow32 - 1, MaxInt64, MaxInt64 + 1, Pow64 - 1}
\* Values the uint32 NumGC can hold, with those whose + 255 wraps.
U32Values == {0, 1, 5, 255, 256, 257, Pow32 - 256, Pow32 - 255, Pow32 - 1}
\* Values a Go int can hold.
IntValues == {MinInt64, 0 - 1, 0, 8, MaxInt64}

\* A freshly initialised pause ring, and one whose slots all differ.
FreshRing == [i \in 1 .. PauseSlots |-> 0]
MarkedRing == [i \in 1 .. PauseSlots |-> 1000 + (i - 1)]

MkSnapshot(serial, n, p, a, b, k, ring) ==
    [Serial |-> serial, CPUNum |-> n, ThreadNum |-> p, GoRoutineNum |-> n,
     CpuPercent |-> p, MemPercent |-> n,
     Memstats |->
       [Alloc |-> a, TotalAlloc |-> b, Sys |-> a, Lookups |-> b,
        Mallocs |-> a, Frees |-> b,
        HeapAlloc |-> b, HeapSys |-> a, HeapIdle |-> b, HeapInuse |-> a,
        HeapReleased |-> b, HeapObjects |-> a,
        StackInuse |-> b, StackSys |-> a, MSpanInuse |-> b, MSpanSys |-> a,
        MCacheInuse |-> b, MCacheSys |-> a, OtherSys |-> b,
        GCSys |-> a, NextGC |-> b, LastGC |-> a, PauseTotalNs |-> b,
        PauseNs |-> ring, NumGC |-> k, GCCPUFraction |-> 0]]

\* What json.Decoder.Decode can leave in a RuntimeData.
Snapshots ==
    { MkSnapshot(s, n, 50, a, b, k, ring) :
        s \in {"node-7"}, n \in {0 - 1, 8, MaxInt64}, a \in U64Values,
        b \in {0, Pow32 - 1}, k \in U32Values, ring \in {FreshRing, MarkedRing} }
    \cup
    { MkSnapshot("", n, n, 0, 0, 0, FreshRing) : n \in IntValues }


-----------------------------------------------------------------------------
(* The transform as a state machine: one decoded RuntimeData is turned     *)
(* into Fields (parse, lines 163-172) and then into the maps handed to     *)
(* AddGauge (line 178).                                                    *)

InertCollector ==
    /\ client = 0 /\ built = 0 /\ calls = 0 /\ overlap = FALSE
    /\ gpc = <<>> /\ gret = <<>> /\ loopi = <<>> /\ wg = <<>>
    /\ task = <<>> /\ acc = <<>>

InitTransform ==
    /\ Urls = <<>>
    /\ Measurement = ""
    /\ InertCollector
    /\ rd \in Snapshots
    /\ fields = ZeroFields
    /\ values = <<>>
    /\ tags = <<>>
    /\ tpc = "decoded"

Collect ==
    /\ tpc = "decoded"
    /\ fields' = ParseFields(rd)
    /\ tpc' = "collected"
    /\ UNCHANGED <<rd, values, tags>>
    /\ UNCHANGED cvars /\ UNCHANGED cfgvars

EmitMaps ==
    /\ tpc = "collected"
    /\ values' = Values(fields)
    /\ tags' = Tags(fields)
    /\ tpc' = "emitted"
    /\ UNCHANGED <<rd, fields>>
    /\ UNCHANGED cvars /\ UNCHANGED cfgvars

NextTransform == Collect \/ EmitMaps

SpecTransform == InitTransform /\ [][NextTransform]_vars


-----------------------------------------------------------------------------
(* The collector: GoRuntime.Gather and gatherURL.                          *)
(*                                                                         *)
(* A frame is one activation of Gather: its locals (wg, the range loop),   *)
(* the goroutines it started and the accumulator view of that call.  A     *)
(* frame whose call has returned is reused by a later call.                *)

MaxUrls == 2
MaxCycles == 2
MaxOverlap == 2
\* Longest endpoint list explored when Gather calls overlap.
MaxOverlapUrls == 1

Frames == 1 .. MaxOverlap

UrlPool == {"http://a:8062/debug/vars", "http://b:8062/debug/vars", "::bad"}

\* http.NewRequest fails on a URL that url.Parse rejects (line 130).
ValidUrl(u) == u # "::bad"

\* What one client.Do / status check / Decode can come to (lines 139-158).
\* A timeout is Do's error once Client.Timeout has elapsed.
DoOutcomes == {"transport", "timeout", "status", "decode", "ok"}
FailOutcomes == {"request", "transport", "timeout", "status", "decode"}

\* The bodies that decode, as seen by the collector.
Bodies ==
    <<MkSnapshot("node-7", 8, 50, 1, Pow32 - 1, 5, MarkedRing),
      MkSnapshot("", 0, 0, 0, 0, 0, FreshRing)>>

NoTask == [pc |-> "none", url |-> "", out |-> "", body |-> 0, cl |-> 0,
           reqs |-> 0]

Active(f) == gpc[f] \in {"tls", "spawn"}

\* if c.client == nil (line 92)
ClientUnset == client = 0

\* No barrier: Gather returns without waiting.
WaitNoBarrier(f) == TRUE

\* wg.Wait() returns (line 117)
WaitReturns(f) == wg[f] = 0

\* Gather fails as soon as one endpoint has failed.
ReturnFirstError(f) ==
    IF \E i \in DOMAIN task[f] : task[f][i].out \in FailOutcomes
    THEN "err" ELSE "nil"

\* return nil (line 119)
ReturnValue(f) == "nil"

\* The measurement name without the fallback.
MeasurementNoDefault == Measurement

\* measurement := c.Measurement; if "" then DefaulMeasurement (lines 174-177)
MeasurementName ==
    IF Measurement = "" THEN DefaulMeasurement ELSE Measurement

\* The closure reads the range variable u instead of its own argument.
LabelLoopVar(f, i) == Urls[loopi[f]]

\* The url the goroutine labels its error with: its argument (lines 109-112)
Label(f, i) == task[f][i].url

\* Only the first failure of a cycle is reported.
EmittedFirstErrorOnly(f, i) ==
    LET t == task[f][i]
        late == gpc[f] = "returned"
    IN  IF t.out = "ok"
        THEN SetToBag({[kind |-> "gauge", task |-> i, late |-> late,
                        measurement |-> MeasurementName,
                        fields |-> Values(ParseFields(Bodies[t.body])),
                        tags |-> Tags(ParseFields(Bodies[t.body]))]})
        ELSE IF \E r \in BagToSet(acc[f]) : r.kind = "error"
             THEN EmptyBag
             ELSE SetToBag({[kind |-> "error", task |-> i, late |-> late,
                             url |-> Label(f, i), cause |-> t.out]})

\* What goroutine i hands to the accumulator: parse's AddGauge (line 178) on
\* success, AddError with the labelled error (lines 111-113) otherwise.
\* task and late are not part of what is handed over: they record which
\* goroutine made the call and whether Gather had returned by then.
Emitted(f, i) ==
    LET t == task[f][i]
        late == gpc[f] = "returned"
    IN  IF t.out = "ok"
        THEN SetToBag({[kind |-> "gauge", task |-> i, late |-> late,
                        measurement |-> MeasurementName,
                        fields |-> Values(ParseFields(Bodies[t.body])),
                        tags |-> Tags(ParseFields(Bodies[t.body]))]})
        ELSE SetToBag({[kind |-> "error", task |-> i, late |-> late,
                        url |-> Label(f, i), cause |-> t.out]})

\* wg.Done() is skipped on the error path.
DoneOnSuccessOnly(f, i) == IF task[f][i].out = "ok" THEN wg[f] - 1 ELSE wg[f]

\* defer wg.Done() (line 110)
Done(f, i) == wg[f] - 1

InertTransform ==
    /\ rd = <<>> /\ fields = <<>> /\ values = <<>> /\ tags = <<>>
    /\ tpc = "idle"

InitCollector ==
    /\ Urls \in UNION {[1 .. n -> UrlPool] : n \in 0 .. MaxUrls}
    /\ Measurement \in {"", "custom_m"}
    /\ client = 0
    /\ built = 0
    /\ calls = 0
    /\ gpc = [f \in Frames |-> "idle"]
    /\ gret = [f \in Frames |-> "none"]
    /\ loopi = [f \in Frames |-> 0]
    /\ wg = [f \in Frames |-> 0]
    /\ task = [f \in Frames |-> [i \in 1 .. Len(Urls) |-> NoTask]]
    /\ acc = [f \in Frames |-> EmptyBag]
    /\ InertTransform

\* The scheduler runs one Gather at a time (telegraf's agent waits for a
\* Gather to return before it calls the input again).
Init == InitCollector /\ overlap = FALSE

\* The scheduler lets a Gather start while another is still running.
InitOverlap ==
    InitCollector /\ overlap = TRUE /\ Len(Urls) <= MaxOverlapUrls

\* Gather is called (line 91) and tests c.client (line 92).
GatherCall(f) ==
    /\ calls < MaxCycles
    /\ ~Active(f)
    /\ \A g \in Frames : g < f => Active(g)
    /\ overlap \/ \A g \in Frames : ~Active(g)
    /\ calls' = calls + 1
    /\ gpc' = [gpc EXCEPT ![f] = IF ClientUnset THEN "tls" ELSE "spawn"]
    /\ gret' = [gret EXCEPT ![f] = "none"]
    /\ loopi' = [loopi EXCEPT ![f] = 0]
    /\ wg' = [wg EXCEPT ![f] = 0]
    /\ task' = [task EXCEPT ![f] = [i \in 1 .. Len(Urls) |-> NoTask]]
    /\ acc' = [acc EXCEPT ![f] = EmptyBag]
    /\ UNCHANGED <<client, built, overlap>>
    /\ UNCHANGED tvars /\ UNCHANGED cfgvars

\* c.ClientConfig.TLSConfig() fails: return err (lines 93-96).
GatherTLSError(f) ==
    /\ gpc[f] = "tls"
    /\ gpc' = [gpc EXCEPT ![f] = "returned"]
    /\ gret' = [gret EXCEPT ![f] = "err"]
    /\ UNCHANGED <<client, built, calls, overlap, loopi, wg, task, acc>>
    /\ UNCHANGED tvars /\ UNCHANGED cfgvars

\* TLSConfig() succeeds: c.client = &http.Client{...} (lines 97-103).
GatherBuildClient(f) ==
    /\ gpc[f] = "tls"
    /\ built' = built + 1
    /\ client' = built + 1
    /\ gpc' = [gpc EXCEPT ![f] = "spawn"]
    /\ UNCHANGED <<calls, overlap, gret, loopi, wg, task, acc>>
    /\ UNCHANGED tvars /\ UNCHANGED cfgvars

\* One iteration of the range loop: wg.Add(1); go func(url){...}(u)
\* (lines 107-115).
GatherSpawn(f) ==
    /\ gpc[f] = "spawn"
    /\ loopi[f] < Len(Urls)
    /\ loopi' = [loopi EXCEPT ![f] = loopi[f] + 1]
    /\ wg' = [wg EXCEPT ![f] = wg[f] + 1]
    /\ task' = [task EXCEPT ![f][loopi[f] + 1] =
                  [NoTask EXCEPT !.pc = "run", !.url = Urls[loopi[f] + 1]]]
    /\ UNCHANGED <<client, built, calls, overlap, gpc, gret, acc>>
    /\ UNCHANGED tvars /\ UNCHANGED cfgvars

\* The loop is over, wg.Wait() returns, Gather returns (lines 117-119).
GatherWait(f) ==
    /\ gpc[f] = "spawn"
    /\ loopi[f] = Len(Urls)
    /\ WaitReturns(f)
    /\ gpc' = [gpc EXCEPT ![f] = "returned"]
    /\ gret' = [gret EXCEPT ![f] = ReturnValue(f)]
    /\ UNCHANGED <<client, built, calls, overlap, loopi, wg, task, acc>>
    /\ UNCHANGED tvars /\ UNCHANGED cfgvars

\* gatherURL up to its result (lines 130-158): NewRequest, then one
\* c.client.Do, the status test and the decode.
TaskFetch(f, i) ==
    /\ task[f][i].pc = "run"
    /\ \/ /\ ~ValidUrl(task[f][i].url)
          /\ task' = [task EXCEPT ![f][i].pc = "got", ![f][i].out = "request"]
       \/ /\ ValidUrl(task[f][i].url)
          /\ \E o \in DoOutcomes :
             \E b \in IF o = "ok" THEN DOMAIN Bodies ELSE {0} :
                task' = [task EXCEPT ![f][i].pc = "got",
                                     ![f][i].out = o,
                                     ![f][i].body = b,
                                     ![f][i].cl = client,
                                     ![f][i].reqs = task[f][i].reqs + 1]
    /\ UNCHANGED <<client, built, calls, overlap, gpc, gret, loopi, wg, acc>>
    /\ UNCHANGED tvars /\ UNCHANGED cfgvars

\* The goroutine hands its result to the accumulator.
TaskEmit(f, i) ==
    /\ task[f][i].pc = "got"
    /\ acc' = [acc EXCEPT ![f] = acc[f] (+) Emitted(f, i)]
    /\ task' = [task EXCEPT ![f][i].pc = "emitted"]
    /\ UNCHANGED <<client, built, calls, overlap, gpc, gret, loopi, wg>>
    /\ UNCHANGED tvars /\ UNCHANGED cfgvars

\* The deferred wg.Done() runs as the goroutine ends.
TaskDone(f, i) ==
    /\ task[f][i].pc = "emitted"
    /\ wg' = [wg EXCEPT ![f] = Done(f, i)]
    /\ task' = [task EXCEPT ![f][i].pc = "done"]
    /\ UNCHANGED <<client, built, calls, overlap, gpc, gret, loopi, acc>>
    /\ UNCHANGED tvars /\ UNCHANGED cfgvars

Next ==
    \/ \E f \in Frames : GatherCall(f)
    \/ \E f \in Frames : GatherTLSError(f)
    \/ \E f \in Frames : GatherBuildClient(f)
    \/ \E f \in Frames : GatherSpawn(f)
    \/ \E f \in Frames : GatherWait(f)
    \/ \E f \in Frames : \E i \in DOMAIN task[f] : TaskFetch(f, i)
    \/ \E f \in Frames : \E i \in DOMAIN task[f] : TaskEmit(f, i)
    \/ \E f \in Frames : \E i \in DOMAIN task[f] : TaskDone(f, i)

Spec == Init /\ [][Next]_vars

SpecOverlap == InitOverlap /\ [][Next]_vars

\* Progress of a started Gather and of a started goroutine.  The Go
\* scheduler runs every runnable goroutine, TLSConfig returns, and every
\* client.Do returns (with a response, or with an error once Client.Timeout
\* has elapsed, line 102).  Calling Gather again is up to the caller: no
\* fairness on GatherCall.
GatherProgress(f) ==
    GatherTLSError(f) \/ GatherBuildClient(f) \/ GatherSpawn(f) \/ GatherWait(f)

TaskProgress(f, i) ==
    /\ i \in DOMAIN task[f]
    /\ (TaskFetch(f, i) \/ TaskEmit(f, i) \/ TaskDone(f, i))

Fairness ==
    /\ \A f \in Frames : WF_vars(GatherProgress(f))
    /\ \A f \in Frames : \A i \in 1 .. MaxUrls : WF_vars(TaskProgress(f, i))

FairSpec == Init /\ [][Next]_vars /\ Fairness


-----------------------------------------------------------------------------
(* Properties of the collector.                                            *)

RECURSIVE SumCopies(_, _)
SumCopies(S, B) ==
    IF S = {} THEN 0
    ELSE LET r == CHOOSE x \in S : TRUE
         IN  CopiesIn(r, B) + SumCopies(S \ {r}, B)

\* How many records of a kind goroutine i of frame f has handed over.
Handed(f, i, kind) ==
    SumCopies({r \in BagToSet(acc[f]) : r.kind = kind /\ r.task = i}, acc[f])

Returned(f) == gpc[f] = "returned"
Launched(f) == Cardinality({i \in DOMAIN task[f] : task[f][i].pc # "none"})

\* C1 (partial-failure independence).  When a Gather call has returned,
\* every endpoint whose fetch succeeded has exactly one gauge record in that
\* call's accumulator and every endpoint whose fetch failed (NewRequest,
\* transport, timeout, status, decode) has exactly one error record there,
\* whatever its siblings came to; and at no time has an endpoint more than
\* one record of a kind.
C1_PartialFailureIndependence ==
    \A f \in Frames : \A i \in DOMAIN task[f] :
        /\ Handed(f, i, "gauge") <= 1
        /\ Handed(f, i, "error") <= 1
        /\ Returned(f) /\ task[f][i].out = "ok" => Handed(f, i, "gauge") = 1
        /\ Returned(f) /\ task[f][i].out \in FailOutcomes
              => Handed(f, i, "error") = 1

\* A returned cycle over two endpoints, the first serving a snapshot and the
\* second a status other than 200: one gauge for the first, one error for
\* the second.
C1_Witness ==
    \E f \in Frames :
        /\ Returned(f) /\ Len(Urls) = 2
        /\ task[f][1].out = "ok" /\ task[f][2].out = "status"
        /\ Handed(f, 1, "gauge") = 1 /\ Handed(f, 2, "error") = 1
        /\ Handed(f, 1, "error") = 0 /\ Handed(f, 2, "gauge") = 0

\* C2 as stated (join barrier).  When Gather has returned, every goroutine
\* it launched has finished, nothing was handed to the accumulator after
\* the return, and it launched as many goroutines as there are endpoints.
C2_JoinBarrierEveryCycle ==
    \A f \in Frames : Returned(f) =>
        /\ \A i \in DOMAIN task[f] : task[f][i].pc \in {"none", "done"}
        /\ \A r \in BagToSet(acc[f]) : ~r.late
        /\ Launched(f) = Len(Urls)

\* C2 as amended.  The barrier holds for every call; the number of
\* goroutines launched is the number of endpoints in every call that
\* returns nil, and zero in a call that returns the TLS configuration
\* error.
C2_JoinBarrier ==
    \A f \in Frames : Returned(f) =>
        /\ \A i \in DOMAIN task[f] : task[f][i].pc \in {"none", "done"}
        /\ \A r \in BagToSet(acc[f]) : ~r.late
        /\ wg[f] = 0
        /\ gret[f] = "nil" => Launched(f) = Len(Urls)
        /\ gret[f] = "err" => Launched(f) = 0

\* A call over two endpoints that returned nil after both goroutines had
\* handed over their record and finished.
C2_Witness ==
    \E f \in Frames :
        /\ Returned(f) /\ gret[f] = "nil" /\ Len(Urls) = 2
        /\ \A i \in 1 .. 2 : task[f][i].pc = "done"
        /\ BagCardinality(acc[f]) = 2

\* C3 (cycle completion), under FairSpec.  Every Gather call that has begun
\* eventually returns; and in a returned cycle in which an endpoint timed
\* out, every other endpoint has its record (gauge or error).
C3_CycleCompletes ==
    /\ \A f \in Frames : Active(f) ~> Returned(f)
    /\ [](\A f \in Frames : \A i \in DOMAIN task[f] :
            Returned(f) /\ task[f][i].out = "timeout" =>
               \A j \in DOMAIN task[f] \ {i} :
                  Handed(f, j, "gauge") + Handed(f, j, "error") = 1)

\* A returned cycle in which the first endpoint timed out and the second
\* one's snapshot was emitted.
C3_Witness ==
    \E f \in Frames :
        /\ Returned(f) /\ Len(Urls) = 2
        /\ task[f][1].out = "timeout" /\ task[f][2].out = "ok"
        /\ Handed(f, 1, "error") = 1 /\ Handed(f, 2, "gauge") = 1

\* C4 as stated (errors are never fatal).  Gather never returns an error.
C4_GatherNeverReturnsError ==
    \A f \in Frames : gret[f] # "err"

\* C4 as amended.  Gather returns an error only for a failed TLS
\* configuration, before any goroutine is launched or anything is handed
\* to the accumulator: a call that has a client (found or just constructed)
\* never returns an error.  Every call that launches its goroutines returns
\* nil whatever the endpoints came to, its failures being one error record
\* per failed endpoint; a cycle in which no endpoint succeeds returns nil
\* with error records only.
C4_ErrorsNotFatal ==
    /\ [](\A f \in Frames : Returned(f) =>
            /\ gret[f] \in {"nil", "err"}
            /\ gret[f] = "err" =>
                  /\ Launched(f) = 0
                  /\ acc[f] = EmptyBag
            /\ Launched(f) > 0 => gret[f] = "nil"
            /\ gret[f] = "nil" =>
                  /\ Launched(f) = Len(Urls)
                  /\ \A i \in DOMAIN task[f] :
                        task[f][i].out \in FailOutcomes =>
                           /\ Handed(f, i, "error") = 1
                           /\ Handed(f, i, "gauge") = 0)
    /\ [][\A f \in Frames : gpc[f] = "spawn" => gret'[f] # "err"]_vars

\* A cycle over two endpoints, both failing, that returned nil with two
\* error records and no gauge.
C4_Witness ==
    \E f \in Frames :
        /\ Returned(f) /\ gret[f] = "nil" /\ Len(Urls) = 2
        /\ \A i \in 1 .. 2 : task[f][i].out \in FailOutcomes
        /\ BagCardinality(acc[f]) = 2
        /\ \A r \in BagToSet(acc[f]) : r.kind = "error"

\* C8 as stated (once-only client).  The client is constructed at most
\* once, c.client is never set to a second client, and every request goes
\* through the first client.
C8_ClientBuiltOnce ==
    /\ built <= 1
    /\ client \in {0, 1}
    /\ \A f \in Frames : \A i \in DOMAIN task[f] :
          task[f][i].reqs > 0 => task[f][i].cl = 1

\* C9 (measurement-name fallback).  Every gauge record carries "custom_m"
\* when that is the configured name and "goruntime_m" when none is
\* configured, whatever the endpoint and the snapshot; and no step changes
\* the configured name.
C9_MeasurementFallback ==
    /\ [](\A f \in Frames : \A r \in BagToSet(acc[f]) :
            r.kind = "gauge" =>
               /\ Measurement = "custom_m" => r.measurement = "custom_m"
               /\ Measurement = "" => r.measurement = "goruntime_m"
               /\ r.measurement = "goruntime_m" <=> Measurement = "")
    /\ [][Measurement' = Measurement]_vars

\* No name configured, two endpoints serving different snapshots: both
\* gauges carry the default name.
C9_Witness ==
    \E f \in Frames :
        /\ Measurement = ""
        /\ Len(Urls) = 2
        /\ Handed(f, 1, "gauge") = 1 /\ Handed(f, 2, "gauge") = 1
        /\ task[f][1].body # task[f][2].body
        /\ \A r \in BagToSet(acc[f]) : r.measurement = "goruntime_m"

\* C10 (failure is local, single-shot, correctly labelled).  A goroutine
\* sends at most one request; one that failed hands over no gauge and at
\* most one error record; and every error record carries the URL configured
\* at its own goroutine's position.
C10_FailureLocalAndLabelled ==
    \A f \in Frames :
        /\ \A i \in DOMAIN task[f] :
              /\ task[f][i].reqs <= 1
              /\ task[f][i].out \in FailOutcomes =>
                    /\ Handed(f, i, "gauge") = 0
                    /\ Handed(f, i, "error") <= 1
                    /\ task[f][i].pc \in {"emitted", "done"}
                          => Handed(f, i, "error") = 1
        /\ \A r \in BagToSet(acc[f]) :
              r.kind = "error" => r.url = Urls[r.task]

\* Two different endpoints failing in different ways, the first one's error
\* handed over after the second one's: each record has its own URL.
C10_Witness ==
    \E f \in Frames :
        /\ Len(Urls) = 2 /\ Urls[1] # Urls[2]
        /\ task[f][1].out = "status" /\ task[f][2].out = "decode"
        /\ task[f][1].reqs = 1 /\ task[f][2].reqs = 1
        /\ \E r1, r2 \in BagToSet(acc[f]) :
              /\ r1.task = 1 /\ r1.url = Urls[1] /\ r1.cause = "status"
              /\ r2.task = 2 /\ r2.url = Urls[2] /\ r2.cause = "decode"


-----------------------------------------------------------------------------
(* Properties of the transform, under SpecTransform.                       *)

TransformDone == tpc = "emitted"

\* C5 (most-recent GC pause index).  For every NumGC k, mem.gc.pause is the
\* ring entry at position (k + 255) mod 256 taken over the unbounded
\* integers, that position is within 0..255, k = 5 reads slot 4 and k = 0
\* reads slot 255.
C5_PauseIndex ==
    TransformDone =>
        LET k == rd.Memstats.NumGC
            idx == (k + 255) % 256
        IN  /\ idx \in 0 .. 255
            /\ values["mem.gc.pause"] = RingAt(rd.Memstats.PauseNs, idx)
            /\ k = 5 => values["mem.gc.pause"] = RingAt(rd.Memstats.PauseNs, 4)
            /\ k = 0 => values["mem.gc.pause"] = RingAt(rd.Memstats.PauseNs, 255)

\* NumGC at the top of uint32, where NumGC + 255 wraps: the ring whose slots
\* all differ yields slot 254.
C5_Witness ==
    /\ TransformDone
    /\ rd.Memstats.NumGC = Pow32 - 1
    /\ rd.Memstats.PauseNs = MarkedRing
    /\ values["mem.gc.pause"] = 1000 + 254

\* The key set the specification documents.
DocumentedKeys ==
    {"cpu.count", "cpu.thread", "cpu.goroutines", "cpu.percent",
     "mem.alloc", "mem.total", "mem.sys", "mem.lookups", "mem.malloc",
     "mem.frees",
     "mem.heap.alloc", "mem.heap.sys", "mem.heap.idle", "mem.heap.inuse",
     "mem.heap.released", "mem.heap.objects",
     "mem.stack.inuse", "mem.stack.sys", "mem.stack.mspan_inuse",
     "mem.stack.mspan_sys", "mem.stack.mcache_inuse", "mem.stack.mcache_sys",
     "mem.othersys",
     "mem.gc.sys", "mem.gc.next", "mem.gc.last", "mem.gc.pause_total",
     "mem.gc.pause", "mem.gc.count", "mem.gc.cpu_fraction"}

\* C6 as stated (fixed output key set).  The keys of the emitted field map
\* are exactly the documented ones.
C6_KeysAreDocumentedSet ==
    TransformDone => DOMAIN values = DocumentedKeys

\* C6 as amended.  For every snapshot the keys of the emitted field map are
\* the documented ones and, besides, cpu.cgo_calls and mem.percent: 32 keys,
\* whichever source fields are zero.
C6_FixedKeySet ==
    TransformDone =>
        /\ DOMAIN values = DocumentedKeys \cup {"cpu.cgo_calls", "mem.percent"}
        /\ Cardinality(DOMAIN values) = 32

\* The snapshot with every source field zero still yields the 32 keys.
C6_Witness ==
    /\ TransformDone
    /\ rd = MkSnapshot("", 0, 0, 0, 0, 0, FreshRing)
    /\ Cardinality(DOMAIN values) = 32
    /\ \A k \in DOMAIN values : values[k] = 0

\* The integer source field behind each key.
SourceOf(r) ==
    LET m == r.Memstats
    IN  ("cpu.count" :> r.CPUNum) @@
        ("cpu.thread" :> r.ThreadNum) @@
        ("cpu.goroutines" :> r.GoRoutineNum) @@
        ("cpu.percent" :> r.CpuPercent) @@
        ("mem.percent" :> r.MemPercent) @@
        ("mem.alloc" :> m.Alloc) @@
        ("mem.total" :> m.TotalAlloc) @@
        ("mem.sys" :> m.Sys) @@
        ("mem.lookups" :> m.Lookups) @@
        ("mem.malloc" :> m.Mallocs) @@
        ("mem.frees" :> m.Frees) @@
        ("mem.heap.alloc" :> m.HeapAlloc) @@
        ("mem.heap.sys" :> m.HeapSys) @@
        ("mem.heap.idle" :> m.HeapIdle) @@
        ("mem.heap.inuse" :> m.HeapInuse) @@
        ("mem.heap.released" :> m.HeapReleased) @@
        ("mem.heap.objects" :> m.HeapObjects) @@
        ("mem.stack.inuse" :> m.StackInuse) @@
        ("mem.stack.sys" :> m.StackSys) @@
        ("mem.stack.mspan_inuse" :> m.MSpanInuse) @@
        ("mem.stack.mspan_sys" :> m.MSpanSys) @@
        ("mem.stack.mcache_inuse" :> m.MCacheInuse) @@
        ("mem.stack.mcache_sys" :> m.MCacheSys) @@
        ("mem.othersys" :> m.OtherSys) @@
        ("mem.gc.sys" :> m.GCSys) @@
        ("mem.gc.next" :> m.NextGC) @@
        ("mem.gc.last" :> m.LastGC) @@
        ("mem.gc.pause_total" :> m.PauseTotalNs) @@
        ("mem.gc.count" :> m.NumGC)

\* C7 as stated (lossless widening).  Every integer source field appears
\* under its key with its own numeric value.
C7_EveryValueUnchanged ==
    TransformDone =>
        \A k \in DOMAIN SourceOf(rd) : values[k] = SourceOf(rd)[k]

\* C7 as amended.  Every int field, the uint32 NumGC, and every uint64
\* counter whose value is below 2^63 appear with their own numeric value; a
\* uint64 counter v >= 2^63 appears as v - 2^64.
C7_LosslessBelowSignBit ==
    TransformDone =>
        \A k \in DOMAIN SourceOf(rd) :
            LET v == SourceOf(rd)[k]
            IN  /\ v <= MaxInt64 => values[k] = v
                /\ v > MaxInt64 => values[k] = v - Pow64

\* HeapObjects at the top of 32 bits comes out unchanged.
C7_Witness ==
    /\ TransformDone
    /\ rd.Memstats.HeapObjects = Pow32 - 1
    /\ values["mem.heap.objects"] = Pow32 - 1

=============================================================================
